---- MODULE Spec2Model ----
(***************************************************************************)
(* Cycle-finding algorithms of networkx/algorithms/cycles.py as state      *)
(* machines: recursive_simple_cycles and simple_cycles (Johnson's          *)
(* algorithm), find_cycle, cycle_basis and chords.                         *)
(*                                                                         *)
(* A graph is a record [directed, multi, nodes, edges]; an edge is a       *)
(* triple <<u, v, key>>.  A simple graph uses key 0 only.  An undirected   *)
(* edge is stored once, as <<u, v, key>> with u <= v.                      *)
(***************************************************************************)
EXTENDS Integers, Sequences, FiniteSets, TLC

\* The node universe the input graphs are drawn from.
Nodes == {0, 1, 2, 3}

\* Largest number of edges of an input graph of the circuit enumerators.
MaxEdges == 4

\* Largest edge key: parallel edges between one pair carry keys 0 .. MaxKey.
MaxKey == 1

Keys == 0 .. MaxKey

\* Largest number of edges of an input graph of a kind the called function
\* is not implemented for.
MaxRaiseEdges == 2

VARIABLES
    pc,        \* position of the running call
    G,         \* the caller's graph
    \* ---- recursive_simple_cycles
    s,         \* loop variable of "for s in ordering"
    component, \* G.subgraph(mincomp)
    frames,    \* call stack of circuit(): [thisnode, nbrs, closed]
    rpath, rblocked, rB,
    result, nresult,   \* the result list: its elements, and its length
    \* ---- simple_cycles
    subG, sccs, scc, startnode,
    path, blocked, closed, B, stack,
    yielded, nyield,   \* the lists yielded so far, and how many yields
    other,             \* a second sequence simple_cycles(G), while it is suspended
    \* ---- find_cycle
    orientation,
    source,            \* the nodes of G.nbunch_iter(source), in its order
    todo,              \* the part of it "for start_node in ..." has not reached
    explored, cycle, final_node, start_node,
    edges, seen, active_nodes, previous_node,
    edge,              \* the edge edge_dfs yielded last
    returned,          \* the value find_cycle returned
    \* ---- edge_dfs(G, start_node, orientation)
    dfs_stack, visited_edges, visited_nodes, dfs_edges,
    \* ---- chords
    T, C,              \* the spanning tree and the chords, as graphs
    \* ---- cycle_basis
    root,
    simpleG,           \* the graph the local name G is bound to at the walk
    gnodes, tstack, pred, used, cycles,
    z, zused,
    znbrs,             \* the part of G[z] "for nbr in G[z]" has not reached
    \* ---- is_reachable(G, s, t, path_length)
    ir_s, ir_t, path_length,
    reachable          \* the value is_reachable returned

rcVars == <<s, component, frames, rpath, rblocked, rB, result, nresult>>
scVars == <<subG, sccs, scc, startnode, path, blocked, closed, B, stack, yielded, nyield>>
fcVars == <<orientation, source, todo, explored, cycle, final_node, start_node,
            edges, seen, active_nodes, previous_node, edge, returned,
            dfs_stack, visited_edges, visited_nodes, dfs_edges>>
chVars == <<T, C>>
cbVars == <<root, simpleG, gnodes, tstack, pred, used, cycles, z, zused, znbrs>>
irVars == <<ir_s, ir_t, path_length, reachable>>
vars == <<pc, G, rcVars, scVars, other, fcVars, chVars, cbVars, irVars>>

\* The state of the calls that are not running in the circuit enumerators.
outsideCircuits == <<other, fcVars, chVars, cbVars, irVars>>

\* The state of the calls that are not running in find_cycle.
outsideFindCycle == <<rcVars, scVars, other, chVars, cbVars, irVars>>

\* The state of the calls that are not running in chords.
outsideChords == <<rcVars, scVars, other, fcVars, cbVars, irVars>>

\* The state of the calls that are not running in cycle_basis, which calls
\* chords.
outsideCycleBasis == <<rcVars, scVars, other, fcVars, irVars>>

\* The state of the calls that are not running in is_reachable.
outsideReachable == <<rcVars, scVars, other, fcVars, chVars, cbVars>>

\* previous_node = None
None == -1

\* No second sequence.
NoSequence == [pc |-> "none", sc |-> <<>>]

\* The variables of is_reachable before a call.
IdleReachable ==
    /\ ir_s = None
    /\ ir_t = None
    /\ path_length = None
    /\ reachable = FALSE

\* The variables of recursive_simple_cycles and simple_cycles before a call.
IdleCircuits ==
    /\ other = NoSequence
    /\ s = 0
    /\ component = {}
    /\ frames = <<>>
    /\ rpath = <<>>
    /\ rblocked = {}
    /\ rB = [n \in Nodes |-> {}]
    /\ result = {}
    /\ nresult = 0
    /\ subG = [nodes |-> {}, edges |-> {}]
    /\ sccs = <<>>
    /\ scc = {}
    /\ startnode = 0
    /\ path = <<>>
    /\ blocked = {}
    /\ closed = {}
    /\ B = [n \in Nodes \cup G.nodes |-> {}]
    /\ stack = <<>>
    /\ yielded = {}
    /\ nyield = 0

\* The variables of find_cycle and edge_dfs before a call.
IdleFindCycle ==
    /\ orientation = "original"
    /\ source = <<>>
    /\ todo = <<>>
    /\ explored = {}
    /\ cycle = <<>>
    /\ final_node = None
    /\ start_node = None
    /\ edges = <<>>
    /\ seen = {}
    /\ active_nodes = {}
    /\ previous_node = None
    /\ edge = <<>>
    /\ returned = <<>>
    /\ dfs_stack = <<>>
    /\ visited_edges = {}
    /\ visited_nodes = {}
    /\ dfs_edges = <<>>

\* A graph without nodes.
NullGraph == [directed |-> FALSE, multi |-> FALSE, nodes |-> {}, edges |-> {}]

\* The variables of chords before a call.
IdleChords ==
    /\ T = NullGraph
    /\ C = NullGraph

\* The variables of cycle_basis before a call.
IdleCycleBasis ==
    /\ root = None
    /\ simpleG = NullGraph
    /\ gnodes = {}
    /\ tstack = <<>>
    /\ pred = <<>>
    /\ used = <<>>
    /\ cycles = <<>>
    /\ z = None
    /\ zused = {}
    /\ znbrs = {}

----------------------------------------------------------------------------
(* Sequence and set helpers *)

Last(q) == q[Len(q)]
Front(q) == SubSeq(q, 1, Len(q) - 1)
Range(q) == {q[i] : i \in 1 .. Len(q)}
MinOf(S) == CHOOSE x \in S : \A y \in S : x <= y

\* Sequences of pairwise distinct nodes, of length 1 .. |Nodes|.
DistinctSeqs ==
    UNION {{q \in [1 .. n -> Nodes] : \A i, j \in 1 .. n : i # j => q[i] # q[j]}
           : n \in 1 .. Cardinality(Nodes)}

\* b is a cyclic rotation of a (is_cyclic_permutation of the tests).
IsRotation(a, b) ==
    /\ Len(a) = Len(b)
    /\ \E i \in 0 .. Len(a) - 1 :
         \A j \in 1 .. Len(a) : b[j] = a[((i + j - 1) % Len(a)) + 1]

----------------------------------------------------------------------------
(* The graph container *)

\* A total order on edges, used only to enumerate each edge set once.
EdgeCode(e) == (e[1] * (Cardinality(Nodes) + 1) + e[2]) * (MaxKey + 2) + e[3]

\* The sets of at most max edges of the universe U in which the keys of the
\* parallel edges of one pair are 0, 1, ... without a gap.
EdgeSets(U, max) ==
    LET OfSize[n \in 0 .. max] ==
          IF n = 0 THEN {{}}
          ELSE UNION {{F \cup {x} : x \in {y \in U :
                                       /\ \A w \in F : EdgeCode(w) < EdgeCode(y)
                                       /\ y[3] > 0 => <<y[1], y[2], y[3] - 1>> \in F}}
                      : F \in OfSize[n - 1]}
    IN  UNION {OfSize[k] : k \in 0 .. max}

\* The graphs on the nodes N with at most max edges, of each of the four
\* kinds; an undirected edge is stored once, with its lesser end first.
GraphsOn(N, max) ==
    LET all == N \X N \X Keys
        simple(U) == {e \in U : e[3] = 0}
        undirected(U) == {e \in U : e[1] <= e[2]}
        graphs(d, m, U) ==
            {[directed |-> d, multi |-> m, nodes |-> N, edges |-> E]
             : E \in EdgeSets(U, max)}
    IN  graphs(TRUE, FALSE, simple(all)) \cup graphs(TRUE, TRUE, all)
        \cup graphs(FALSE, FALSE, undirected(simple(all)))
        \cup graphs(FALSE, TRUE, undirected(all))

\* The edge sets of the input graphs of the circuit enumerators.
DiEdgeSets == EdgeSets(Nodes \X Nodes \X Keys, MaxEdges)

\* G[v] of a directed graph: the successors of v (dict keys: each once).
Succ(E, v) == {e[2] : e \in {x \in E : x[1] = v}}

\* G.subgraph(N): the edges with both ends in N.
Induced(E, N) == {e \in E : e[1] \in N /\ e[2] \in N}

\* Nodes reachable from v along edges of E (v included).
RECURSIVE ReachLoop(_, _, _)
ReachLoop(E, frontier, found) ==
    IF frontier = {} THEN found
    ELSE LET next == (UNION {Succ(E, v) : v \in frontier}) \ found
         IN  ReachLoop(E, next, found \cup next)

Reach(E, v) == ReachLoop(E, {v}, {v})

\* nx.strongly_connected_components(graph with nodes N and edges E).
StronglyConnectedComponents(N, E) ==
    LET EN == Induced(E, N)
    IN  {{w \in N : w \in Reach(EN, v) /\ v \in Reach(EN, w)} : v \in N}

\* p is an elementary circuit of the graph with edges E.
HasEdge(E, u, v) == \E e \in E : e[1] = u /\ e[2] = v

IsCircuit(E, p) ==
    /\ Len(p) >= 1
    /\ \A i, j \in 1 .. Len(p) : i # j => p[i] # p[j]
    /\ \A i \in 1 .. Len(p) - 1 : HasEdge(E, p[i], p[i + 1])
    /\ HasEdge(E, p[Len(p)], p[1])

ElementaryCircuits(E) == {p \in DistinctSeqs : IsCircuit(E, p)}

----------------------------------------------------------------------------
(* not_implemented_for *)

\* not_implemented_for(*graph_types): the decorated function raises
\* NetworkXNotImplemented at the call, before its body runs, when the graph
\* is of every one of the kinds named in graph_types.
NotImplementedFor(graph_types, g) ==
    \A t \in graph_types :
        CASE t = "directed" -> g.directed
          [] t = "undirected" -> ~g.directed
          [] t = "multigraph" -> g.multi
          [] t = "graph" -> ~g.multi

\* The decorators of cycle_basis, simple_cycles and recursive_simple_cycles.
NotForUndirected == {"undirected"}
cycle_basis_not_implemented_for == {"directed"}
NotForDirected == {"directed"}
simple_cycles_not_implemented_for == {"undirected"}
recursive_simple_cycles_not_implemented_for == {"undirected"}

----------------------------------------------------------------------------
(* recursive_simple_cycles *)

\* _unblock(thisnode) of recursive_simple_cycles.  blk is the set of nodes
\* whose blocked[] entry is True; b[n] holds the elements of the list B[n].
RECURSIVE RUnblock(_, _, _), RUnblockWhile(_, _, _)
RUnblock(thisnode, blk, b) ==
    IF thisnode \in blk
    THEN RUnblockWhile(thisnode, blk \ {thisnode}, b)
    ELSE [blocked |-> blk, B |-> b]

RUnblockWhile(thisnode, blk, b) ==
    IF b[thisnode] = {} THEN [blocked |-> blk, B |-> b]
    ELSE LET w == CHOOSE x \in b[thisnode] : TRUE
             r == RUnblock(w, blk, [b EXCEPT ![thisnode] = @ \ {w}])
         IN  RUnblockWhile(thisnode, r.blocked, r.B)

\* "for nextnode in component[thisnode]: if thisnode not in B[nextnode]:
\*  B[nextnode].append(thisnode)"; the same statement in simple_cycles.
Register(thisnode, b, nbrs) ==
    [n \in DOMAIN b |-> IF n \in nbrs THEN b[n] \cup {thisnode} ELSE b[n]]

\* The nodes of the subgraph searched from s: the strongly connected
\* component, of the subgraph induced by s and the following nodes, that
\* contains the least node.  The ordering of the nodes is their order in G:
\* here the numeric order.
MinComp(g, s0) ==
    LET strongcomp == StronglyConnectedComponents({n \in g.nodes : n >= s0}, g.edges)
    IN  CHOOSE c \in strongcomp : \A d \in strongcomp : MinOf(c) <= MinOf(d)

\* A slip: G[thisnode], the successors in the whole graph.
ComponentNbrsOfG(g, comp, thisnode) == Succ(g.edges, thisnode)

\* component[thisnode]
ComponentNbrs(g, comp, thisnode) == Succ(Induced(g.edges, comp), thisnode)

\* Entry of circuit(thisnode, startnode, component).
NewFrame(g, comp, thisnode) ==
    [thisnode |-> thisnode, nbrs |-> ComponentNbrs(g, comp, thisnode), closed |-> FALSE]

\* The call recursive_simple_cycles(G), passed by the decorator.
RCCall ==
    /\ pc = "rc_call"
    /\ ~NotImplementedFor(recursive_simple_cycles_not_implemented_for, G)
    /\ pc' = "rc_outer"
    /\ UNCHANGED <<G, outsideCircuits, rcVars, scVars>>

\* The call of recursive_simple_cycles(G) that the decorator ends.
RCRaise ==
    /\ pc = "rc_call"
    /\ NotImplementedFor(recursive_simple_cycles_not_implemented_for, G)
    /\ pc' = "rc_raised"
    /\ UNCHANGED <<G, outsideCircuits, rcVars, scVars>>

\* "for s in ordering": the body for one s, up to the call of circuit.
RCNextS ==
    /\ pc = "rc_outer"
    /\ s \in G.nodes
    /\ LET mincomp == MinComp(G, s)
           start == MinOf(mincomp)
       IN  /\ component' = mincomp
           /\ rB' = [n \in Nodes |-> IF n \in mincomp THEN {} ELSE rB[n]]
           /\ rblocked' = (rblocked \ mincomp) \cup {start}
           /\ rpath' = Append(rpath, start)
           /\ frames' = <<NewFrame(G, mincomp, start)>>
    /\ pc' = "rc_circuit"
    /\ UNCHANGED <<G, outsideCircuits, s, result, nresult, scVars>>

\* One iteration of "for nextnode in component[thisnode]" in the running call.
RCVisit ==
    /\ pc = "rc_circuit"
    /\ frames # <<>>
    /\ LET top == Last(frames)
           start == frames[1].thisnode
       IN  /\ top.nbrs # {}
           /\ \E nextnode \in top.nbrs :
                LET rest == top.nbrs \ {nextnode}
                IN  IF nextnode = start
                    THEN /\ result' = result \cup {rpath}
                         /\ nresult' = nresult + 1
                         /\ frames' = [frames EXCEPT ![Len(frames)] =
                                          [top EXCEPT !.nbrs = rest, !.closed = TRUE]]
                         /\ UNCHANGED <<rpath, rblocked>>
                    ELSE IF nextnode \notin rblocked
                    THEN /\ frames' = Append([frames EXCEPT ![Len(frames)].nbrs = rest],
                                             NewFrame(G, component, nextnode))
                         /\ rpath' = Append(rpath, nextnode)
                         /\ rblocked' = rblocked \cup {nextnode}
                         /\ UNCHANGED <<result, nresult>>
                    ELSE /\ frames' = [frames EXCEPT ![Len(frames)].nbrs = rest]
                         /\ UNCHANGED <<rpath, rblocked, result, nresult>>
    /\ UNCHANGED <<pc, G, outsideCircuits, s, component, rB, scVars>>

\* The end of circuit(): lines 406-413, and the caller's "closed = True".
RCReturn ==
    /\ pc = "rc_circuit"
    /\ frames # <<>>
    /\ LET top == Last(frames)
           u == RUnblock(top.thisnode, rblocked, rB)
       IN  /\ top.nbrs = {}
           /\ IF top.closed
              THEN rblocked' = u.blocked /\ rB' = u.B
              ELSE /\ rB' = Register(top.thisnode, rB,
                                     ComponentNbrs(G, component, top.thisnode))
                   /\ rblocked' = rblocked
           /\ rpath' = Front(rpath)
           /\ IF Len(frames) = 1
              THEN /\ frames' = <<>>
                   /\ s' = s + 1
                   /\ pc' = "rc_outer"
              ELSE /\ frames' = [Front(frames) EXCEPT ![Len(frames) - 1].closed =
                                     @ \/ top.closed]
                   /\ UNCHANGED <<s, pc>>
    /\ UNCHANGED <<G, outsideCircuits, component, result, nresult, scVars>>

\* "return result"; the comparison then calls simple_cycles(G).
RCDone ==
    /\ pc = "rc_outer"
    /\ s \notin G.nodes
    /\ pc' = "sc_call"
    /\ UNCHANGED <<G, outsideCircuits, rcVars, scVars>>

----------------------------------------------------------------------------
(* simple_cycles *)

\* _unblock(thisnode, blocked, B) of simple_cycles: the loop over the local
\* stack, a set popped in no particular order.
RECURSIVE UnblockLoop(_, _, _)
UnblockLoop(pending, blk, b) ==
    IF pending = {} THEN [blocked |-> blk, B |-> b]
    ELSE LET node == CHOOSE n \in pending : TRUE
             rest == pending \ {node}
         IN  IF node \in blk
             THEN UnblockLoop(rest \cup b[node], blk \ {node}, [b EXCEPT ![node] = {}])
             ELSE UnblockLoop(rest, blk, b)

\* A slip: the cascade started from every blocked node, not from thisnode.
UnblockFromAll(thisnode, blk, b) == UnblockLoop(blk, blk, b)

Unblock(thisnode, blk, b) == UnblockLoop({thisnode}, blk, b)

\* Endpoints of the edges E: the nodes of type(G)(G.edges()).
Endpoints(E) == {e[1] : e \in E} \cup {e[2] : e \in E}

\* sccs.extend(list(...)): sccs is a list of batches; the components of one
\* batch stand in the list in no particular order.
Extend(batches, comps) == IF comps = {} THEN batches ELSE Append(batches, comps)

\* sccs without the component c popped from its end.
PopFrom(batches, c) ==
    IF Last(batches) = {c} THEN Front(batches)
    ELSE [batches EXCEPT ![Len(batches)] = @ \ {c}]

\* list(subG[node]): the neighbours of node in the working graph.
Nbrs(sg, node) == Succ(sg.edges, node)

\* A slip: the start node stays in the working graph.
RemoveNodeSkipped(sg, n) == sg

\* subG.remove_node(n): the node and the edges at it.
RemoveNode(sg, n) ==
    [nodes |-> sg.nodes \ {n}, edges |-> Induced(sg.edges, sg.nodes \ {n})]

\* "subG.remove_node(startnode)" as the caller's graph shows it: subG is a
\* graph of its own, made from the edges of G at line 289, so the graph G of
\* the caller keeps its nodes and edges.
GAfterRemoveNodeFromAlias(g, n) ==
    [g EXCEPT !.nodes = @ \ {n}, !.edges = Induced(@, g.nodes \ {n})]
GAfterRemoveNode(g, n) == g

\* The call simple_cycles(G), passed by the decorator, creates the lazy
\* sequence: the body has not started.  It comes after the call of
\* recursive_simple_cycles(G) has returned or raised.
SCCall ==
    /\ pc \in {"sc_call", "rc_raised"}
    /\ ~NotImplementedFor(simple_cycles_not_implemented_for, G)
    /\ pc' = "sc_created"
    /\ UNCHANGED <<G, outsideCircuits, rcVars, scVars>>

\* The call simple_cycles(G) that the decorator ends: no sequence is created.
SCRaise ==
    /\ pc \in {"sc_call", "rc_raised"}
    /\ NotImplementedFor(simple_cycles_not_implemented_for, G)
    /\ pc' = "sc_raised"
    /\ UNCHANGED <<G, outsideCircuits, rcVars, scVars>>

\* Lines 290-293, run when the first element is requested.
SCBegin ==
    /\ pc = "sc_created"
    /\ subG' = [nodes |-> Endpoints(G.edges), edges |-> G.edges]
    /\ sccs' = Extend(<<>>, StronglyConnectedComponents(Endpoints(G.edges), G.edges))
    /\ pc' = "sc_outer"
    /\ UNCHANGED <<G, outsideCircuits, rcVars, scc, startnode, path, blocked, closed, B, stack,
                   yielded, nyield>>

\* Lines 294-304: the next component and its start node.
SCPop ==
    /\ pc = "sc_outer"
    /\ sccs # <<>>
    /\ \E c \in Last(sccs) : \E sn \in c :
         /\ sccs' = PopFrom(sccs, c)
         /\ scc' = c \ {sn}
         /\ startnode' = sn
         /\ path' = <<sn>>
         /\ blocked' = {sn}
         /\ closed' = {}
         /\ B' = [n \in Nodes \cup G.nodes |-> {}]
         /\ stack' = <<[node |-> sn, nbrs |-> Nbrs(subG, sn)]>>
    /\ pc' = "sc_inner"
    /\ UNCHANGED <<G, outsideCircuits, rcVars, subG, yielded, nyield>>

\* A slip: line 331, path.pop(), left out.
SCDoneWithoutPathPop(thisnode, rest, cl) ==
    IF rest = {}
    THEN /\ IF thisnode \in cl
            THEN LET u == Unblock(thisnode, blocked, B)
                 IN  blocked' = u.blocked /\ B' = u.B
            ELSE /\ B' = Register(thisnode, B, Succ(subG.edges, thisnode))
                 /\ blocked' = blocked
         /\ stack' = Front(stack)
         /\ path' = path
    ELSE /\ stack' = [stack EXCEPT ![Len(stack)].nbrs = rest]
         /\ UNCHANGED <<blocked, B, path>>

\* A slip: lines 329 and 331, stack.pop() and path.pop(), left out.
SCDoneWithoutPops(thisnode, rest, cl) ==
    IF rest = {}
    THEN /\ IF thisnode \in cl
            THEN LET u == Unblock(thisnode, blocked, B)
                 IN  blocked' = u.blocked /\ B' = u.B
            ELSE /\ B' = Register(thisnode, B, Nbrs(subG, thisnode))
                 /\ blocked' = blocked
         /\ UNCHANGED <<stack, path>>
    ELSE /\ stack' = [stack EXCEPT ![Len(stack)].nbrs = rest]
         /\ UNCHANGED <<blocked, B, path>>

\* Lines 322-331 with the neighbours left in the top frame being rest and the
\* closed set being cl: "if not nbrs" the node is done.
SCDoneWith(thisnode, rest, cl) ==
    IF rest = {}
    THEN /\ IF thisnode \in cl
            THEN LET u == Unblock(thisnode, blocked, B)
                 IN  blocked' = u.blocked /\ B' = u.B
            ELSE /\ B' = Register(thisnode, B, Nbrs(subG, thisnode))
                 /\ blocked' = blocked
         /\ stack' = Front(stack)
         /\ path' = Front(path)
    ELSE /\ stack' = [stack EXCEPT ![Len(stack)].nbrs = rest]
         /\ UNCHANGED <<blocked, B, path>>

\* One iteration of "while stack" (lines 305-331), up to the yield if it
\* reaches one.
SCStep ==
    /\ pc = "sc_inner"
    /\ stack # <<>>
    /\ LET thisnode == Last(stack).node
           nbrs == Last(stack).nbrs
       IN  IF nbrs # {}
           THEN \E nextnode \in nbrs :
                  LET rest == nbrs \ {nextnode}
                  IN  IF nextnode = startnode
                      THEN /\ yielded' = yielded \cup {path}
                           /\ nyield' = nyield + 1
                           /\ stack' = [stack EXCEPT ![Len(stack)].nbrs = rest]
                           /\ pc' = "sc_yield"
                           /\ UNCHANGED <<path, blocked, closed, B>>
                      ELSE IF nextnode \notin blocked
                      THEN /\ path' = Append(path, nextnode)
                           /\ stack' = Append([stack EXCEPT ![Len(stack)].nbrs = rest],
                                              [node |-> nextnode,
                                               nbrs |-> Nbrs(subG, nextnode)])
                           /\ closed' = closed \ {nextnode}
                           /\ blocked' = blocked \cup {nextnode}
                           /\ UNCHANGED <<pc, B, yielded, nyield>>
                      ELSE /\ SCDoneWith(thisnode, rest, closed)
                           /\ UNCHANGED <<pc, closed, yielded, nyield>>
           ELSE /\ SCDoneWith(thisnode, nbrs, closed)
                /\ UNCHANGED <<pc, closed, yielded, nyield>>
    /\ UNCHANGED <<G, outsideCircuits, rcVars, subG, sccs, scc, startnode>>

\* The consumer asks for the next element: the iteration goes on after the
\* yield (lines 313-331).
SCResume ==
    /\ pc = "sc_yield"
    /\ closed' = closed \cup Range(path)
    /\ SCDoneWith(Last(stack).node, Last(stack).nbrs, closed')
    /\ pc' = "sc_inner"
    /\ UNCHANGED <<G, outsideCircuits, rcVars, subG, sccs, scc, startnode, yielded, nyield>>

\* Lines 333-335: the start node is done.
SCRemove ==
    /\ pc = "sc_inner"
    /\ stack = <<>>
    /\ LET rem == RemoveNode(subG, startnode)
       IN  /\ subG' = rem
           /\ sccs' = Extend(sccs, StronglyConnectedComponents(scc, rem.edges))
    /\ G' = GAfterRemoveNode(G, startnode)
    /\ pc' = "sc_outer"
    /\ UNCHANGED <<outsideCircuits, rcVars, scc, startnode, path, blocked, closed, B, stack,
                   yielded, nyield>>

\* "while sccs" ends: the sequence is exhausted.
SCExhausted ==
    /\ pc = "sc_outer"
    /\ sccs = <<>>
    /\ pc' = "sc_done"
    /\ UNCHANGED <<G, outsideCircuits, rcVars, scVars>>

----------------------------------------------------------------------------
(* The circuit enumerators on one directed graph: recursive_simple_cycles(G),
   then simple_cycles(G) consumed to its end. *)

DiGraphs ==
    {[directed |-> TRUE, multi |-> (\E e \in E : e[3] > 0), nodes |-> Nodes, edges |-> E]
     : E \in DiEdgeSets}

\* The undirected graphs, simple and multi, that the circuit enumerators
\* refuse.
UndirectedGraphs == {g \in GraphsOn(Nodes, MaxRaiseEdges) : ~g.directed}

\* Before the call recursive_simple_cycles(G).
InitCircuits ==
    /\ pc = "rc_call"
    /\ G \in DiGraphs \cup UndirectedGraphs
    /\ IdleCircuits
    /\ IdleReachable
    /\ IdleFindCycle
    /\ IdleChords
    /\ IdleCycleBasis

NextCircuits ==
    \/ RCCall
    \/ RCRaise
    \/ RCNextS
    \/ RCVisit
    \/ RCReturn
    \/ RCDone
    \/ SCCall
    \/ SCRaise
    \/ SCBegin
    \/ SCPop
    \/ SCStep
    \/ SCResume
    \/ SCRemove
    \/ SCExhausted

SpecCircuits == InitCircuits /\ [][NextCircuits]_vars

----------------------------------------------------------------------------
(* Properties of the circuit enumerators *)

\* C1: when simple_cycles(G) is exhausted, every elementary circuit of G is a
\* cyclic rotation of exactly one yielded list, and no two yields are cyclic
\* rotations of each other (no list is yielded twice either).
C1_EveryCircuitExactlyOnce ==
    pc = "sc_done" =>
        /\ nyield = Cardinality(yielded)
        /\ \A c \in ElementaryCircuits(G.edges) :
             Cardinality({y \in yielded : IsRotation(c, y)}) = 1
        /\ \A y1, y2 \in yielded : y1 # y2 => ~IsRotation(y1, y2)

\* A graph with parallel edges and two circuits through one node: both
\* yielded.
C1_Witness ==
    /\ pc = "sc_done"
    /\ G.multi
    /\ \E y1, y2 \in yielded : y1 # y2 /\ Len(y1) >= 2 /\ Range(y1) \cap Range(y2) # {}

\* C2: every list yielded by simple_cycles(G) is an elementary circuit of G:
\* non-empty, no node twice, an edge of G between consecutive nodes and from
\* the last node to the first.
C2_YieldsAreCircuits ==
    \A y \in yielded : IsCircuit(G.edges, y)

\* A circuit of three nodes is yielded after the search backtracked.
C2_Witness ==
    /\ pc = "sc_yield"
    /\ Len(path) >= 3
    /\ \E n \in Nodes : n \in blocked /\ n \notin Range(path)

\* C3: simple_cycles(G) and recursive_simple_cycles(G) give the same number
\* of circuits, and every circuit of one is a cyclic rotation of a circuit of
\* the other.
C3_SameCircuits ==
    pc = "sc_done" =>
        /\ nyield = nresult
        /\ \A y \in yielded : \E r \in result : IsRotation(y, r)
        /\ \A r \in result : \E y \in yielded : IsRotation(r, y)

\* Both ran to their end, found several circuits, and one of them in
\* different rotations.
C3_Witness ==
    /\ pc = "sc_done"
    /\ nresult >= 2
    /\ \E y \in yielded : y \notin result

\* C16: on an undirected graph recursive_simple_cycles and simple_cycles
\* raise NetworkXNotImplemented at the call: the lazy sequence is never
\* created, so the error does not wait for the first element to be requested,
\* no body runs and no circuit is ever produced.
C16_UndirectedRaisesAtCall ==
    ~G.directed =>
        /\ pc \in {"rc_call", "rc_raised", "sc_raised"}
        /\ result = {} /\ nresult = 0
        /\ yielded = {} /\ nyield = 0
        /\ subG = [nodes |-> {}, edges |-> {}]

\* Both calls have raised on an undirected multigraph with two parallel edges.
C16_Witness ==
    /\ pc = "sc_raised"
    /\ ~G.directed
    /\ \E e, f \in G.edges : e # f /\ e[1] = f[1] /\ e[2] = f[2] /\ e[1] # e[2]

----------------------------------------------------------------------------
(* helper_funcs and edge_dfs of networkx.algorithms.traversal.edgedfs, which
   find_cycle drives.  A traversed edge is the tuple the traversal yields:
   <<u, v>>, with the key after v for a multigraph, and with the direction
   last when the orientation of a directed graph is reversed or ignored. *)

\* The node universe and the largest number of edges of find_cycle's graphs.
FcNodes == {0, 1, 2}
MaxFcEdges == 3

FORWARD == "forward"
REVERSE == "reverse"

IgnoreOrientation(g, o) == g.directed /\ o = "ignore"
ReverseOrientation(g, o) == g.directed /\ o = "reverse"

\* The tuple the graph container reports for the edge from u to v with key k.
Reported(g, u, v, k) == IF g.multi THEN <<u, v, k>> ELSE <<u, v>>

\* out_edges(u): the edges the traversal may take from u, as the iterator
\* yields them: those of first in any order, then those of second.
OutEdges(g, o, u) ==
    LET outs == {Reported(g, e[1], e[2], e[3]) : e \in {x \in g.edges : x[1] = u}}
        ins  == {Reported(g, e[1], e[2], e[3]) : e \in {x \in g.edges : x[2] = u}}
        undirected ==
            {Reported(g, u, IF e[1] = u THEN e[2] ELSE e[1], e[3])
             : e \in {x \in g.edges : x[1] = u \/ x[2] = u}}
    IN  IF IgnoreOrientation(g, o)
        THEN [first  |-> {Append(x, FORWARD) : x \in outs},
              second |-> {Append(x, REVERSE) : x \in ins}]
        ELSE IF ReverseOrientation(g, o)
        THEN [first |-> {Append(x, REVERSE) : x \in ins}, second |-> {}]
        ELSE IF g.directed
        THEN [first |-> outs, second |-> {}]
        ELSE [first |-> undirected, second |-> {}]

\* key(edge): what identifies a traversed edge among the visited ones.
EdgeKey(g, o, ed) ==
    IF ~g.directed THEN <<{ed[1], ed[2]}>> \o SubSeq(ed, 3, Len(ed))
    ELSE IF IgnoreOrientation(g, o) \/ ReverseOrientation(g, o) THEN Front(ed)
    ELSE ed

\* traversed_tailhead(edge): <<tail, head>> of an edge as it was traversed.
TailHead(g, o, ed) ==
    IF (IgnoreOrientation(g, o) \/ ReverseOrientation(g, o)) /\ Last(ed) = REVERSE
    THEN <<ed[2], ed[1]>>
    ELSE <<ed[1], ed[2]>>

\* The iterator it after next(it) gave ed.
Advance(it, ed) ==
    IF it.first # {} THEN [it EXCEPT !.first = @ \ {ed}]
    ELSE [it EXCEPT !.second = @ \ {ed}]

\* The edges next(it) may give.
NextOf(it) == IF it.first # {} THEN it.first ELSE it.second

\* One iteration of "while stack" of edge_dfs; the generator stops at its
\* yield, with the edge in hand.
EdgeDfsStep ==
    /\ pc = "fc_dfs"
    /\ dfs_stack # <<>>
    /\ LET current_node == Last(dfs_stack)
           it == IF current_node \in visited_nodes
                 THEN dfs_edges[current_node]
                 ELSE OutEdges(G, orientation, current_node)
       IN  /\ visited_nodes' = visited_nodes \cup {current_node}
           /\ IF NextOf(it) = {}
              THEN /\ dfs_stack' = Front(dfs_stack)
                   /\ dfs_edges' = [dfs_edges EXCEPT ![current_node] = it]
                   /\ UNCHANGED <<visited_edges, edge, pc>>
              ELSE \E ed \in NextOf(it) :
                     /\ dfs_edges' = [dfs_edges EXCEPT ![current_node] = Advance(it, ed)]
                     /\ IF EdgeKey(G, orientation, ed) \notin visited_edges
                        THEN /\ visited_edges' = visited_edges \cup
                                                 {EdgeKey(G, orientation, ed)}
                             /\ dfs_stack' = Append(dfs_stack,
                                                    TailHead(G, orientation, ed)[2])
                             /\ edge' = ed
                             /\ pc' = "fc_body"
                        ELSE UNCHANGED <<visited_edges, dfs_stack, edge, pc>>
    /\ UNCHANGED <<G, outsideFindCycle, orientation, source, todo, explored, cycle,
                   final_node, start_node, edges, seen, active_nodes, previous_node,
                   returned>>

----------------------------------------------------------------------------
(* find_cycle *)

\* out_edge, key, tailhead = helper_funcs(G, orientation)
tailhead(ed) == TailHead(G, orientation, ed)

\* The loop "while True" that pops edges after a backtrack, until the head
\* of the last edge left is tl.  keyerror: active_nodes.remove(popped_head)
\* was given a node that is not in the set.
RECURSIVE PopToTail(_, _, _), PopToTailKeepingActive(_, _, _)
PopToTailKeepingActive(es, act, tl) ==
    IF es = <<>>
    THEN [edges |-> <<>>, active_nodes |-> {tl}, keyerror |-> FALSE]
    ELSE IF Front(es) # <<>> /\ tl = tailhead(Last(Front(es)))[2]
    THEN [edges |-> Front(es), active_nodes |-> act, keyerror |-> FALSE]
    ELSE PopToTailKeepingActive(Front(es), act, tl)
PopToTail(es, act, tl) ==
    IF es = <<>>
    THEN [edges |-> <<>>, active_nodes |-> {tl}, keyerror |-> FALSE]
    ELSE LET popped_head == tailhead(Last(es))[2]
             rest == Front(es)
         IN  IF popped_head \notin act
             THEN [edges |-> rest, active_nodes |-> act, keyerror |-> TRUE]
             ELSE IF rest # <<>> /\ tl = tailhead(Last(rest))[2]
             THEN [edges |-> rest, active_nodes |-> act \ {popped_head},
                   keyerror |-> FALSE]
             ELSE PopToTail(rest, act \ {popped_head}, tl)

\* edges.append(edge), with the edge as the traversal yields it.
AppendedAsTraversed(es, ed) ==
    Append(es, <<tailhead(ed)[1], tailhead(ed)[2]>> \o SubSeq(ed, 3, Len(ed)))
Appended(es, ed) == Append(es, ed)

\* The index i at which "for i, edge in enumerate(cycle)" stops.
TrimIndexFirst(cyc, fn) == 1
TrimIndexLast(cyc, fn) == Len(cyc)
TrimIndex(cyc, fn) ==
    LET at == {i \in 1 .. Len(cyc) : tailhead(cyc[i])[1] = fn}
    IN  IF at # {} THEN MinOf(at) ELSE Len(cyc)

\* An out_edges iterator that has given all its edges.
NoEdges == [first |-> {}, second |-> {}]

\* "for start_node in G.nbunch_iter(source)": the next source node, skipped
\* when it is explored, and otherwise the start of a new edge_dfs.
FCNextSource ==
    /\ pc = "fc_for"
    /\ todo # <<>>
    /\ start_node' = Head(todo)
    /\ todo' = Tail(todo)
    /\ IF Head(todo) \in explored
       THEN UNCHANGED <<pc, edges, seen, active_nodes, previous_node, dfs_stack,
                        visited_edges, visited_nodes, dfs_edges>>
       ELSE /\ edges' = <<>>
            /\ seen' = {Head(todo)}
            /\ active_nodes' = {Head(todo)}
            /\ previous_node' = None
            /\ dfs_stack' = <<Head(todo)>>
            /\ visited_edges' = {}
            /\ visited_nodes' = {}
            /\ dfs_edges' = [n \in FcNodes |-> NoEdges]
            /\ pc' = "fc_dfs"
    /\ UNCHANGED <<G, outsideFindCycle, orientation, source, explored, cycle,
                   final_node, edge, returned>>

\* The body of "for edge in edge_dfs(G, start_node, orientation)".
FCBody ==
    /\ pc = "fc_body"
    /\ LET tl == tailhead(edge)[1]
           hd == tailhead(edge)[2]
           r == IF previous_node # None /\ tl # previous_node
                THEN PopToTail(edges, active_nodes, tl)
                ELSE [edges |-> edges, active_nodes |-> active_nodes,
                      keyerror |-> FALSE]
       IN  IF r.keyerror
           THEN /\ pc' = "fc_keyerror"
                /\ UNCHANGED <<edges, active_nodes, cycle, final_node, seen,
                               previous_node>>
           ELSE /\ edges' = Appended(r.edges, edge)
                /\ IF hd \in r.active_nodes
                   THEN /\ cycle' = cycle \o edges'
                        /\ final_node' = hd
                        /\ active_nodes' = r.active_nodes
                        /\ pc' = "fc_after"
                        /\ UNCHANGED <<seen, previous_node>>
                   ELSE IF hd \in explored
                   THEN /\ active_nodes' = r.active_nodes
                        /\ pc' = "fc_after"
                        /\ UNCHANGED <<cycle, final_node, seen, previous_node>>
                   ELSE /\ seen' = seen \cup {hd}
                        /\ active_nodes' = r.active_nodes \cup {hd}
                        /\ previous_node' = hd
                        /\ pc' = "fc_dfs"
                        /\ UNCHANGED <<cycle, final_node>>
    /\ UNCHANGED <<G, outsideFindCycle, orientation, source, todo, explored,
                   start_node, edge, returned, dfs_stack, visited_edges,
                   visited_nodes, dfs_edges>>

\* edge_dfs has no edge left: the inner for loop ends.
FCExhausted ==
    /\ pc = "fc_dfs"
    /\ dfs_stack = <<>>
    /\ pc' = "fc_after"
    /\ UNCHANGED <<G, outsideFindCycle, orientation, source, todo, explored, cycle,
                   final_node, start_node, edges, seen, active_nodes, previous_node,
                   edge, returned, dfs_stack, visited_edges, visited_nodes,
                   dfs_edges>>

\* "if cycle: break / else: explored.update(seen)"
FCAfter ==
    /\ pc = "fc_after"
    /\ IF cycle # <<>>
       THEN pc' = "fc_trim" /\ UNCHANGED explored
       ELSE pc' = "fc_for" /\ explored' = explored \cup seen
    /\ UNCHANGED <<G, outsideFindCycle, orientation, source, todo, cycle,
                   final_node, start_node, edges, seen, active_nodes, previous_node,
                   edge, returned, dfs_stack, visited_edges, visited_nodes,
                   dfs_edges>>

\* The else of the for loop: raise NetworkXNoCycle.
FCRaise ==
    /\ pc = "fc_for"
    /\ todo = <<>>
    /\ pc' = "fc_raised"
    /\ UNCHANGED <<G, outsideFindCycle, orientation, source, todo, explored, cycle,
                   final_node, start_node, edges, seen, active_nodes, previous_node,
                   edge, returned, dfs_stack, visited_edges, visited_nodes,
                   dfs_edges>>

\* return cycle[i:]
FCReturn ==
    /\ pc = "fc_trim"
    /\ returned' = SubSeq(cycle, TrimIndex(cycle, final_node), Len(cycle))
    /\ pc' = "fc_returned"
    /\ UNCHANGED <<G, outsideFindCycle, orientation, source, todo, explored, cycle,
                   final_node, start_node, edges, seen, active_nodes, previous_node,
                   edge, dfs_stack, visited_edges, visited_nodes, dfs_edges>>

\* The graphs given to find_cycle.
FcGraphs == GraphsOn(FcNodes, MaxFcEdges)

\* The orders in which G.nbunch_iter(source) gives the source nodes: those of
\* a list of nodes, of one node, and (all the nodes) of source=None.
FcSources ==
    UNION {{q \in [1 .. n -> FcNodes] : \A i, j \in 1 .. n : i # j => q[i] # q[j]}
           : n \in 0 .. Cardinality(FcNodes)}

InitFindCycle ==
    /\ pc = "fc_for"
    /\ G \in FcGraphs
    /\ orientation \in (IF G.directed THEN {"original", "reverse", "ignore"}
                        ELSE {"original"})
    /\ source \in FcSources
    /\ todo = source
    /\ explored = {}
    /\ cycle = <<>>
    /\ final_node = None
    /\ start_node = None
    /\ edges = <<>>
    /\ seen = {}
    /\ active_nodes = {}
    /\ previous_node = None
    /\ edge = <<>>
    /\ returned = <<>>
    /\ dfs_stack = <<>>
    /\ visited_edges = {}
    /\ visited_nodes = {}
    /\ dfs_edges = <<>>
    /\ IdleCircuits
    /\ IdleReachable
    /\ IdleChords
    /\ IdleCycleBasis

NextFindCycle ==
    \/ FCNextSource
    \/ EdgeDfsStep
    \/ FCBody
    \/ FCExhausted
    \/ FCAfter
    \/ FCRaise
    \/ FCReturn

SpecFindCycle == InitFindCycle /\ [][NextFindCycle]_vars

\* The same runs, none of which stops while a step is left to take.
SpecFindCycleFair == SpecFindCycle /\ WF_vars(NextFindCycle)

----------------------------------------------------------------------------
(* Properties of find_cycle *)

\* The ways the orientation o lets an edge of g be traversed, as arcs
\* <<from, to, 0>>.
Arcs(g, o) ==
    {<<e[1], e[2], 0>> : e \in {x \in g.edges : ~(g.directed /\ o = "reverse")}}
    \cup {<<e[2], e[1], 0>> : e \in {x \in g.edges : ~(g.directed /\ o = "original")}}

\* The nodes reachable from the nodes N under the orientation o.
ReachableFrom(g, o, N) == ReachLoop(Arcs(g, o), N, N)

\* A cycle under the orientation o passes through a node of N: a closed walk
\* of at least one arc when the orientation is kept or reversed; when it is
\* ignored or absent, a connected component with no fewer edges than nodes.
HasCycleAt(g, o, N) ==
    IF g.directed /\ o # "ignore"
    THEN \E v \in N : v \in ReachableFrom(g, o, Succ(Arcs(g, o), v))
    ELSE \E v \in N :
           LET comp == ReachableFrom(g, o, {v})
           IN  Cardinality({e \in g.edges : e[1] \in comp}) >= Cardinality(comp)

CycleReachable == HasCycleAt(G, orientation, ReachableFrom(G, orientation, Range(source)))

\* C5: find_cycle raises NetworkXNoCycle only when no cycle under the
\* orientation is reachable from the source nodes, whatever the order of the
\* sources and of the edges of a node.
C5_RaisesOnlyWithoutCycle == pc = "fc_raised" => ~CycleReachable

\* The stored edge of a returned step, and the way the step goes.
StoredEdge(st) ==
    LET k == IF G.multi THEN st[3] ELSE 0
    IN  IF G.directed \/ st[1] <= st[2] THEN <<st[1], st[2], k>>
        ELSE <<st[2], st[1], k>>
Tagged == G.directed /\ orientation # "original"
StepFrom(st) == IF Tagged /\ Last(st) = REVERSE THEN st[2] ELSE st[1]
StepTo(st) == IF Tagged /\ Last(st) = REVERSE THEN st[1] ELSE st[2]

IsOneCycle(r) ==
    /\ Len(r) >= 1
    /\ \A i \in 1 .. Len(r) :
         /\ Len(r[i]) = 2 + (IF G.multi THEN 1 ELSE 0) + (IF Tagged THEN 1 ELSE 0)
         /\ StoredEdge(r[i]) \in G.edges
         /\ Tagged => Last(r[i]) \in {FORWARD, REVERSE}
         /\ orientation = "reverse" /\ G.directed => Last(r[i]) = REVERSE
    /\ \A i \in 1 .. Len(r) - 1 : StepTo(r[i]) = StepFrom(r[i + 1])
    /\ StepTo(r[Len(r)]) = StepFrom(r[1])
    /\ \A i, j \in 1 .. Len(r) :
         i # j => StepTo(r[i]) # StepTo(r[j]) /\ StoredEdge(r[i]) # StoredEdge(r[j])

\* C6: what find_cycle returns is exactly one cycle of G: a non-empty closed
\* chain of edges of G, each taken in a direction the orientation allows, no
\* node entered twice, no edge used twice, no approach edge before the cycle.
C6_ReturnsOneCycle == pc = "fc_returned" => IsOneCycle(returned)

\* A cycle returned after its approach path was cut off.
C6_Witness ==
    /\ pc = "fc_returned"
    /\ Len(returned) >= 2
    /\ Len(returned) < Len(cycle)

\* A directed acyclic graph with its orientation kept or reversed, or an
\* undirected simple graph that is a forest.
AcyclicInput ==
    /\ (G.directed /\ orientation \in {"original", "reverse"}) \/ (~G.directed /\ ~G.multi)
    /\ ~HasCycleAt(G, orientation, G.nodes)

\* C7: on a graph with no cycle under the orientation, find_cycle raises
\* NetworkXNoCycle for every source argument.
C7_AcyclicRaises == (pc = "fc_for" /\ todo = source /\ AcyclicInput) ~> (pc = "fc_raised")

\* NetworkXNoCycle raised after the search from the last source stopped at a
\* node explored from an earlier source.
C7_Witness ==
    /\ pc = "fc_raised"
    /\ AcyclicInput
    /\ edges # <<>>
    /\ tailhead(Last(edges))[2] \notin seen
    /\ tailhead(Last(edges))[2] \in explored

\* find_cycle(G, orientation='ignore') of a directed graph, source=None: the
\* source nodes are all the nodes of G, in the order G gives them.
IgnoreAllNodes ==
    /\ G.directed
    /\ orientation = "ignore"
    /\ Range(source) = G.nodes

\* The directed acyclic graph of the example, its edges (0,1), (0,2), (1,2)
\* traversed in that order: from node 0 first, and (0,1) before (0,2).
ExampleDag ==
    /\ ~G.multi
    /\ G.edges = {<<0, 1, 0>>, <<0, 2, 0>>, <<1, 2, 0>>}
    /\ source = <<0, 1, 2>>
    /\ cycle # <<>> => cycle[1] = <<0, 1, FORWARD>>

\* C8: with the orientation ignored and every node a source, find_cycle
\* returns a non-empty cycle for a directed graph whose undirected projection
\* has a cycle, be the graph acyclic as a directed graph or not; for the
\* example it returns [(0,1,forward), (1,2,forward), (0,2,reverse)].
C8_IgnoreFindsProjectionCycle ==
    (pc = "fc_for" /\ todo = source /\ IgnoreAllNodes /\ HasCycleAt(G, "ignore", G.nodes))
      ~> /\ pc = "fc_returned"
         /\ returned # <<>>
         /\ ExampleDag =>
              returned = <<<<0, 1, FORWARD>>, <<1, 2, FORWARD>>, <<0, 2, REVERSE>>>>

\* The example's cycle, returned.
C8_Witness ==
    /\ IgnoreAllNodes
    /\ ExampleDag
    /\ ~HasCycleAt(G, "original", G.nodes)
    /\ pc = "fc_returned"
    /\ returned = <<<<0, 1, FORWARD>>, <<1, 2, FORWARD>>, <<0, 2, REVERSE>>>>

\* The node at which step i of the returned cycle starts, the cycle being
\* walked from final_node, where the search closed it (i up to Len + 1).
StepStart(i) ==
    LET at[j \in 1 .. Len(returned) + 1] ==
          IF j = 1 THEN final_node
          ELSE IF returned[j - 1][1] = at[j - 1] THEN returned[j - 1][2]
          ELSE returned[j - 1][1]
    IN  at[i]

\* C9: with the orientation ignored, each returned step names the ends of
\* its edge as G stores them, tail then head, with the tag 'forward' exactly
\* when it is walked from the tail to the head and 'reverse' exactly when
\* from the head to the tail; in a multigraph it carries the key of its edge,
\* and parallel edges in one cycle have distinct keys.
C9_IgnoreStepsAsStored ==
    pc = "fc_returned" /\ G.directed /\ orientation = "ignore" =>
        /\ \A i \in 1 .. Len(returned) :
             LET st == returned[i]
                 forward == StepStart(i) = st[1] /\ StepStart(i + 1) = st[2]
                 reverse == StepStart(i) = st[2] /\ StepStart(i + 1) = st[1]
             IN  /\ Len(st) = IF G.multi THEN 4 ELSE 3
                 /\ <<st[1], st[2], IF G.multi THEN st[3] ELSE 0>> \in G.edges
                 /\ Last(st) \in {FORWARD, REVERSE}
                 /\ Last(st) = FORWARD => forward
                 /\ Last(st) = REVERSE => reverse
                 /\ forward \/ reverse
        /\ StepStart(Len(returned) + 1) = final_node
        /\ G.multi => \A i, j \in 1 .. Len(returned) :
             i # j /\ returned[i][1] = returned[j][1] /\ returned[i][2] = returned[j][2]
               => returned[i][3] # returned[j][3]

\* A cycle of two parallel edges, one walked forward and one in reverse.
C9_Witness ==
    /\ pc = "fc_returned"
    /\ G.multi
    /\ orientation = "ignore"
    /\ Len(returned) = 2
    /\ returned[1][1] = returned[2][1]
    /\ returned[1][2] = returned[2][2]
    /\ returned[1][3] # returned[2][3]
    /\ returned[1][4] = FORWARD
    /\ returned[2][4] = REVERSE

----------------------------------------------------------------------------
(* chords *)

\* The node universe and the largest number of edges of the graphs given to
\* chords.
ChNodes == {0, 1, 2, 3}
MaxChEdges == 3

Swapped(e) == <<e[2], e[1], e[3]>>
Canonical(e) == IF e[1] <= e[2] THEN e ELSE Swapped(e)
Symmetric(E) == E \cup {Swapped(e) : e \in E}

\* nx.Graph(g): the simple undirected graph on the nodes and node pairs of g.
AsGraph(g) ==
    [directed |-> FALSE, multi |-> FALSE, nodes |-> g.nodes,
     edges |-> {Canonical(<<e[1], e[2], 0>>) : e \in g.edges}]

\* nx.DiGraph(t) of an undirected graph t: each edge in both directions.
AsDiGraph(t) ==
    [directed |-> TRUE, multi |-> FALSE, nodes |-> t.nodes, edges |-> Symmetric(t.edges)]

\* The connected components of the nodes N under the undirected edges E.
ConnectedComponents(N, E) == {ReachLoop(Symmetric(E), {v}, {v}) : v \in N}

\* The orders in which the elements of the set S may come.
Orderings(S) ==
    {q \in [1 .. Cardinality(S) -> S] :
       \A i, j \in 1 .. Cardinality(S) : i # j => q[i] # q[j]}

\* nx.minimum_spanning_tree(g) of an undirected graph g, as the edges it
\* gives to nx.Graph in the order in which it accepts them: the edges of a
\* spanning forest of g, each as g gives it (an undirected graph gives an
\* edge from its end that comes first among its nodes; the nodes of G come
\* in their numeric order).  Which forest and which order is decided by the
\* weights and the order of the edges.
MinimumSpanningTrees(g) ==
    LET links == {e \in AsGraph(g).edges : e[1] # e[2]}
        parts == Cardinality(ConnectedComponents(g.nodes, links))
        forests == {X \in SUBSET links :
                      /\ Cardinality(X) = Cardinality(g.nodes) - parts
                      /\ Cardinality(ConnectedComponents(g.nodes, X)) = parts}
    IN  UNION {Orderings(F) : F \in forests}

\* The place of the node n among the nodes of the graph made by adding the
\* edges of q one by one: a graph keeps its nodes in the order in which they
\* were added.
Rank(q, n) ==
    LET at == {i \in 1 .. Len(q) : q[i][1] = n \/ q[i][2] = n}
    IN  IF at = {} THEN 2 * Len(q) + 2
        ELSE 2 * MinOf(at) + (IF q[MinOf(at)][1] = n THEN 0 ELSE 1)

\* edges_iter(keys=True) of the undirected graph made from the edges of q:
\* each edge from its end that comes first among the nodes.
EdgesIter(q) ==
    {IF Rank(q, q[i][1]) <= Rank(q, q[i][2]) THEN q[i] ELSE Swapped(q[i])
     : i \in 1 .. Len(q)}

\* The (u, v) of the tuples of an edge report.
Pairs(report) == {<<e[1], e[2]>> : e \in report}

\* The undirected graph made from the edges of q.
GraphOf(q, m, N) ==
    [directed |-> FALSE, multi |-> m, nodes |-> N,
     edges |-> {Canonical(q[i]) : i \in 1 .. Len(q)}]

\* to_add, for the tree edges Tedges: for each of them the first edge e of G
\* with e[:2] equal to it, in the order in which G gives its edges: from
\* each node in turn.
ToAdds(g, Tedges) ==
    LET matched == {p \in Tedges : \E e \in g.edges : <<e[1], e[2]>> = p}
        chosen == {{f[p] : p \in matched}
                   : f \in {h \in [matched -> g.edges] :
                              \A p \in matched : <<h[p][1], h[p][2]>> = p}}
    IN  UNION {{q \in Orderings(a) :
                  \A i \in 1 .. Len(q) - 1 : q[i][1] <= q[i + 1][1]}
               : a \in chosen}

\* The edges "C.remove_edges_from" is given: those G gives that are among the
\* edges T gives.
Removed(g, T_edges, report) ==
    IF g.multi THEN {n \in g.edges : n \in report}
    ELSE {n \in g.edges : <<n[1], n[2]>> \in Pairs(report)}

\* The pairs (C, T) that chords(g) may return.
ChordsOf(g) ==
    LET simple(q) ==
            LET t == IF g.directed THEN AsDiGraph(GraphOf(q, FALSE, g.nodes))
                     ELSE GraphOf(q, FALSE, g.nodes)
                report == IF g.directed THEN t.edges ELSE EdgesIter(q)
            IN  [C |-> [g EXCEPT !.edges = @ \ Removed(g, t.edges, report)], T |-> t]
        multi(q2) ==
            LET t == GraphOf(q2, TRUE, {q2[i][1] : i \in 1 .. Len(q2)}
                                       \cup {q2[i][2] : i \in 1 .. Len(q2)})
            IN  [C |-> [g EXCEPT !.edges = @ \ Removed(g, t.edges, EdgesIter(q2))],
                 T |-> t]
    IN  IF g.multi
        THEN UNION {{multi(q2) : q2 \in ToAdds(g, Pairs(EdgesIter(q)))}
                    : q \in MinimumSpanningTrees(g)}
        ELSE {simple(q) : q \in MinimumSpanningTrees(g)}

\* chords(G)
Chords ==
    /\ pc = "ch_call"
    /\ \E r \in ChordsOf(G) : C' = r.C /\ T' = r.T
    /\ pc' = "ch_done"
    /\ UNCHANGED <<G, outsideChords>>

InitChords ==
    /\ pc = "ch_call"
    /\ G \in GraphsOn(ChNodes, MaxChEdges)
    /\ IdleChords
    /\ IdleCircuits
    /\ IdleReachable
    /\ IdleFindCycle
    /\ IdleCycleBasis

NextChords == Chords

SpecChords == InitChords /\ [][NextChords]_vars

\* An edge of G is an edge of T.
InT(e) == IF T.directed THEN e \in T.edges ELSE Canonical(e) \in T.edges

\* C10: chords(G) returns (C, T) with every edge of G, with its key, in
\* exactly one of C and T, and with no edge in C that is not an edge of G.
C10_ChordsPartition ==
    pc = "ch_done" =>
        /\ \A e \in G.edges : (e \in C.edges) # InT(e)
        /\ C.edges \subseteq G.edges

\* C11: for an undirected graph G (simple or multi, connected or not) the T
\* that chords(G) returns is a spanning forest of G: every edge of T is an
\* edge of G, T has no self-loop and no cycle, it has |V| - components edges,
\* it connects the nodes that G connects, and between a pair of nodes it
\* holds one of the parallel edges only.
C11_TreeIsSpanningForest ==
    (pc = "ch_done" /\ ~G.directed) =>
        /\ T.edges \subseteq G.edges
        /\ \A e \in T.edges : e[1] # e[2]
        /\ Cardinality(T.edges)
             = Cardinality(G.nodes) - Cardinality(ConnectedComponents(G.nodes, G.edges))
        /\ ConnectedComponents(G.nodes, T.edges) = ConnectedComponents(G.nodes, G.edges)
        /\ \A e, f \in T.edges : (e[1] = f[1] /\ e[2] = f[2]) => e = f

\* C12: for a directed graph G every edge of the T that chords(G) returns is
\* an edge of G as G stores it, T is a directed graph of the kind of G, and T
\* has |V| - (weakly connected components) edges.
C12_DirectedTreeKeepsOrientation ==
    (pc = "ch_done" /\ G.directed) =>
        /\ T.directed /\ T.multi = G.multi
        /\ T.edges \subseteq G.edges
        /\ Cardinality(T.edges)
             = Cardinality(G.nodes) - Cardinality(ConnectedComponents(G.nodes, G.edges))

----------------------------------------------------------------------------
(* cycle_basis *)

\* The node universe and the largest number of edges of the graphs given to
\* cycle_basis.
CbNodes == {0, 1, 2, 3}
MaxCbEdges == 4

\* G[v] of an undirected graph: the neighbours of v, v among them when it
\* has a self-loop.
Adj(g, v) ==
    {e[2] : e \in {x \in g.edges : x[1] = v}} \cup {e[1] : e \in {x \in g.edges : x[2] = v}}

\* T.has_edge(u, v) of an undirected graph.
HasUndirectedEdge(t, u, v) == \E e \in t.edges : Canonical(<<u, v, e[3]>>) = e

\* [list(e) for e in C.edges_iter() if T.has_edge(*e) or T.has_edge(*e[::-1])]:
\* the orders in which C gives these edges, from each node in turn and the
\* parallel edges of a pair in a row.
DuplicateEdgeCycles(c, t) ==
    LET dup == {e \in c.edges : HasUndirectedEdge(t, e[1], e[2])}
        orders == {q \in Orderings(dup) :
                     /\ \A i \in 1 .. Len(q) - 1 : q[i][1] <= q[i + 1][1]
                     /\ \A i, j, k \in 1 .. Len(q) :
                          i < k /\ k < j /\ q[i][2] = q[j][2] /\ q[i][1] = q[j][1]
                            => q[k][2] = q[i][2] /\ q[k][1] = q[i][1]}
    IN  {[i \in 1 .. Len(q) |-> <<q[i][1], q[i][2]>>] : q \in orders}

\* The cycle closed by the edge from z to nbr: nbr, z, and the predecessors
\* of z up to the first one that nbr has used.
RECURSIVE Climb(_, _, _)
Climb(cyc, p, pn) ==
    IF p \in pn THEN Append(cyc, p)
    ELSE Climb(Append(cyc, p), pred[p], pn)

FoundCycleWithoutClimb(nbr, zz) == <<nbr, zz>>
FoundCycle(nbr, zz) == Climb(<<nbr, zz>>, pred[zz], used[nbr])

\* A slip: line 105, used[nbr].add(z), left out.
MarkUsedSkipped(u, nbr, zz) == u

\* used[nbr].add(z)
MarkUsed(u, nbr, zz) == [u EXCEPT ![nbr] = @ \cup {zz}]

\* gnodes-=set(pred)
UnvisitedButRoot(gn, prd) == gn \ {root}
Unvisited(gn, prd) == gn \ DOMAIN prd

\* The call cycle_basis(G, root) that the decorator ends.
CBRaise ==
    /\ pc = "cb_call"
    /\ NotImplementedFor(cycle_basis_not_implemented_for, G)
    /\ pc' = "cb_raised"
    /\ UNCHANGED <<G, outsideCycleBasis, chVars, cbVars>>

\* The call passed by the decorator, and lines 69-79: the cycles of the
\* parallel edges of a multigraph, and the nodes to visit.
CBBegin ==
    /\ pc = "cb_call"
    /\ ~NotImplementedFor(cycle_basis_not_implemented_for, G)
    /\ IF G.multi
       THEN /\ \E r \in ChordsOf(G) :
                 /\ C' = r.C
                 /\ T' = r.T
                 /\ cycles' \in DuplicateEdgeCycles(r.C, r.T)
            /\ simpleG' = AsGraph(G)
       ELSE /\ cycles' = <<>>
            /\ simpleG' = G
            /\ UNCHANGED <<C, T>>
    /\ gnodes' = G.nodes
    /\ pc' = "cb_outer"
    /\ UNCHANGED <<G, outsideCycleBasis, root, tstack, pred, used, z, zused, znbrs>>

\* "while gnodes:" the start of the walk of one connected component.
CBNextComponent ==
    /\ pc = "cb_outer"
    /\ gnodes # {}
    /\ IF root = None
       THEN \E n \in gnodes : root' = n /\ gnodes' = gnodes \ {n}
       ELSE UNCHANGED <<root, gnodes>>
    /\ tstack' = <<root'>>
    /\ pred' = (root' :> root')
    /\ used' = (root' :> {})
    /\ pc' = "cb_walk"
    /\ UNCHANGED <<G, outsideCycleBasis, chVars, simpleG, cycles, z, zused, znbrs>>

\* "while stack: z=stack.pop(); zused=used[z]; for nbr in G[z]:"
CBPop ==
    /\ pc = "cb_walk"
    /\ tstack # <<>>
    /\ z' = Last(tstack)
    /\ tstack' = Front(tstack)
    /\ zused' = used[Last(tstack)]
    /\ znbrs' = Adj(simpleG, Last(tstack))
    /\ pc' = "cb_nbr"
    /\ UNCHANGED <<G, outsideCycleBasis, chVars, root, simpleG, gnodes, pred, used,
                   cycles>>

\* The body without the cycle of a self-loop.
CBNbrWithoutSelfLoop ==
    /\ pc = "cb_nbr"
    /\ \E nbr \in znbrs :
         /\ znbrs' = znbrs \ {nbr}
         /\ IF nbr \notin DOMAIN used
            THEN /\ pred' = (nbr :> z) @@ pred
                 /\ tstack' = Append(tstack, nbr)
                 /\ used' = (nbr :> {z}) @@ used
                 /\ UNCHANGED cycles
            ELSE IF nbr = z
            THEN UNCHANGED <<pred, tstack, used, cycles>>
            ELSE IF nbr \notin zused
            THEN /\ cycles' = Append(cycles, FoundCycle(nbr, z))
                 /\ used' = MarkUsed(used, nbr, z)
                 /\ UNCHANGED <<pred, tstack>>
            ELSE UNCHANGED <<pred, tstack, used, cycles>>
    /\ UNCHANGED <<G, outsideCycleBasis, chVars, pc, root, simpleG, gnodes, z, zused>>

\* The body of "for nbr in G[z]", for the neighbour that comes next.
CBNbr ==
    /\ pc = "cb_nbr"
    /\ \E nbr \in znbrs :
         /\ znbrs' = znbrs \ {nbr}
         /\ IF nbr \notin DOMAIN used
            THEN /\ pred' = (nbr :> z) @@ pred
                 /\ tstack' = Append(tstack, nbr)
                 /\ used' = (nbr :> {z}) @@ used
                 /\ UNCHANGED cycles
            ELSE IF nbr = z
            THEN /\ cycles' = Append(cycles, <<z>>)
                 /\ UNCHANGED <<pred, tstack, used>>
            ELSE IF nbr \notin zused
            THEN /\ cycles' = Append(cycles, FoundCycle(nbr, z))
                 /\ used' = MarkUsed(used, nbr, z)
                 /\ UNCHANGED <<pred, tstack>>
            ELSE UNCHANGED <<pred, tstack, used, cycles>>
    /\ UNCHANGED <<G, outsideCycleBasis, chVars, pc, root, simpleG, gnodes, z, zused>>

\* "for nbr in G[z]" has given every neighbour.
CBNbrsDone ==
    /\ pc = "cb_nbr"
    /\ znbrs = {}
    /\ pc' = "cb_walk"
    /\ UNCHANGED <<G, outsideCycleBasis, chVars, cbVars>>

\* "gnodes-=set(pred); root=None"
CBComponentDone ==
    /\ pc = "cb_walk"
    /\ tstack = <<>>
    /\ gnodes' = Unvisited(gnodes, pred)
    /\ root' = None
    /\ pc' = "cb_outer"
    /\ UNCHANGED <<G, outsideCycleBasis, chVars, simpleG, tstack, pred, used, cycles,
                   z, zused, znbrs>>

\* return cycles
CBReturn ==
    /\ pc = "cb_outer"
    /\ gnodes = {}
    /\ pc' = "cb_done"
    /\ UNCHANGED <<G, outsideCycleBasis, chVars, cbVars>>

\* Before the call cycle_basis(G, root): G an undirected graph, or a directed
\* graph, which cycle_basis refuses; root a node of G or None.
InitCycleBasis ==
    /\ pc = "cb_call"
    /\ G \in {g \in GraphsOn(CbNodes, MaxCbEdges) : ~g.directed}
            \cup {g \in GraphsOn(CbNodes, MaxRaiseEdges) : g.directed}
    /\ root \in CbNodes \cup {None}
    /\ simpleG = NullGraph
    /\ gnodes = {}
    /\ tstack = <<>>
    /\ pred = <<>>
    /\ used = <<>>
    /\ cycles = <<>>
    /\ z = None
    /\ zused = {}
    /\ znbrs = {}
    /\ IdleChords
    /\ IdleCircuits
    /\ IdleReachable
    /\ IdleFindCycle

NextCycleBasis ==
    \/ CBRaise
    \/ CBBegin
    \/ CBNextComponent
    \/ CBPop
    \/ CBNbr
    \/ CBNbrsDone
    \/ CBComponentDone
    \/ CBReturn

SpecCycleBasis == InitCycleBasis /\ [][NextCycleBasis]_vars

\* C4: for an undirected simple graph G, with or without self-loops and of
\* any number of connected components, and for every root, the length of
\* cycle_basis(G, root) is |E| - |V| + the number of connected components.
C4_BasisSize ==
    pc = "cb_done" /\ ~G.multi =>
        Len(cycles) = Cardinality(G.edges) - Cardinality(G.nodes)
                      + Cardinality(ConnectedComponents(G.nodes, G.edges))

\* A basis of a cycle and a self-loop in a graph of several components.
C4_Witness ==
    /\ pc = "cb_done"
    /\ ~G.multi
    /\ Cardinality(ConnectedComponents(G.nodes, G.edges)) >= 2
    /\ \E i, j \in 1 .. Len(cycles) : Len(cycles[i]) = 1 /\ Len(cycles[j]) = 3

\* The parallel edges of g beyond the first one of each pair of two nodes.
ExtraParallelEdges(g) ==
    {e \in g.edges : e[1] # e[2] /\ \E f \in g.edges :
                        f[1] = e[1] /\ f[2] = e[2] /\ f[3] < e[3]}

\* C13: for an undirected multigraph G, whichever spanning forest chords(G)
\* selects, the length of cycle_basis(G) is the basis size of the simple
\* projection of G plus one for every parallel edge beyond the first of its
\* pair of nodes.
C13_MultigraphBasisSize ==
    (pc = "cb_done" /\ G.multi) =>
        Len(cycles) = Cardinality(AsGraph(G).edges) - Cardinality(G.nodes)
                      + Cardinality(ConnectedComponents(G.nodes, G.edges))
                      + Cardinality(ExtraParallelEdges(G))

\* C14: cycle_basis called on an undirected multigraph raises
\* NetworkXNotImplemented: the call does nothing but raise.
C14_MultigraphRaises ==
    (~G.directed /\ G.multi) => pc \in {"cb_call", "cb_raised"}

\* C15: cycle_basis called on a directed graph, the empty one included,
\* raises NetworkXNotImplemented before any spanning tree, chord or walk is
\* made, and no list of cycles, partial or whole, is returned.
C15_DirectedRaisesFirst ==
    G.directed =>
        /\ pc \in {"cb_call", "cb_raised"}
        /\ IdleChords
        /\ simpleG = NullGraph /\ gnodes = {} /\ tstack = <<>>
        /\ pred = <<>> /\ used = <<>> /\ cycles = <<>>
        /\ z = None /\ zused = {} /\ znbrs = {}

\* The call has raised on a directed graph with a circuit of two nodes.
C15_Witness ==
    /\ pc = "cb_raised"
    /\ G.directed
    /\ \E e, f \in G.edges : e[1] = f[2] /\ e[2] = f[1] /\ e[1] # e[2]

\* The number of times the list c is among the cycles returned.
Times(c) == Cardinality({i \in 1 .. Len(cycles) : cycles[i] = c})

\* C17: for an undirected graph G and every root, cycle_basis(G, root) holds
\* [v] exactly once for every node v with a self-loop and never for a node
\* without one.
C17_SelfLoopsOnce ==
    pc = "cb_done" =>
        \A v \in G.nodes :
            Times(<<v>>) = IF \E e \in G.edges : e[1] = v /\ e[2] = v THEN 1 ELSE 0

\* The basis of a graph with self-loops at two nodes, one of them joined to
\* a node without a self-loop.
C17_Witness ==
    /\ pc = "cb_done"
    /\ root = None
    /\ \E u, v, w \in G.nodes :
         /\ u # v /\ w \notin {u, v}
         /\ Times(<<u>>) = 1 /\ Times(<<v>>) = 1 /\ Times(<<w>>) = 0
         /\ <<MinOf({u, w}), MinOf({u, w} \ {MinOf({u, w})}), 0>> \in G.edges

\* The edges, as pairs of nodes, that lie on the cycle cyc.
CycleEdges(cyc) ==
    {Canonical(<<cyc[i], cyc[(i % Len(cyc)) + 1], 0>>) : i \in 1 .. Len(cyc)}

\* The edges that lie on at least one of the cycles returned.
Covered == UNION {CycleEdges(cycles[i]) : i \in 1 .. Len(cycles)}

\* The edges of the simple graph g that lie on a cycle of g: the self-loops
\* and the edges whose ends stay connected without them.
OnCycle(g) ==
    {e \in g.edges :
       \/ e[1] = e[2]
       \/ e[2] \in ReachLoop(Symmetric(g.edges \ {e}), {e[1]}, {e[1]})}

\* The edges of C that the multigraph prelude of cycle_basis turns into
\* cycles of two nodes; chords(G) does not depend on the root.
Duplicates == {e \in C.edges : HasUndirectedEdge(T, e[1], e[2])}

\* C18: the number of cycles of cycle_basis(G, root) and the set of edges
\* that lie on at least one of them are the same for every root: the number
\* is that of the duplicate edges chords(G) gives plus |E| - |V| + components
\* of the simple projection, and the edges covered are the duplicate pairs
\* and the edges of the projection that lie on a cycle, whatever the root,
\* the node popped for a further component and the order of the neighbours.
C18_RootIndependent ==
    pc = "cb_done" =>
        /\ Len(cycles) = Cardinality(Duplicates) + Cardinality(AsGraph(G).edges)
                          - Cardinality(G.nodes)
                          + Cardinality(ConnectedComponents(G.nodes, G.edges))
        /\ Covered = AsGraph([G EXCEPT !.edges = Duplicates]).edges \cup OnCycle(AsGraph(G))

\* The basis of a graph with a cycle of three nodes and an edge that lies
\* on no cycle.
C18_Witness ==
    /\ pc = "cb_done"
    /\ \E i \in 1 .. Len(cycles) : Len(cycles[i]) = 3
    /\ \E e \in G.edges : Canonical(<<e[1], e[2], 0>>) \notin Covered

----------------------------------------------------------------------------
(* Every call on every kind of graph *)

\* Before one call of recursive_simple_cycles and simple_cycles, of
\* find_cycle, of chords or of cycle_basis, on a graph of any of the four
\* kinds.
InitCalls ==
    \/ InitFindCycle
    \/ /\ pc \in {"rc_call", "ch_call"}
       /\ G \in FcGraphs
       /\ IdleCircuits
       /\ IdleReachable
       /\ IdleFindCycle
       /\ IdleChords
       /\ IdleCycleBasis
    \/ /\ pc = "cb_call"
       /\ G \in FcGraphs
       /\ root \in G.nodes \cup {None}
       /\ simpleG = NullGraph
       /\ gnodes = {}
       /\ tstack = <<>>
       /\ pred = <<>>
       /\ used = <<>>
       /\ cycles = <<>>
       /\ z = None
       /\ zused = {}
       /\ znbrs = {}
       /\ IdleChords
       /\ IdleCircuits
       /\ IdleReachable
       /\ IdleFindCycle

NextCalls ==
    \/ NextCircuits
    \/ NextFindCycle
    \/ NextChords
    \/ NextCycleBasis

SpecCalls == InitCalls /\ [][NextCalls]_vars

\* C19: cycle_basis, chords, simple_cycles at every point of its iteration,
\* recursive_simple_cycles and find_cycle leave the graph G of the caller as
\* it was, nodes and edges with their keys, at every step of the call, also
\* of a call that ends in an error.
C19_GraphUnchanged == [][G' = G]_vars

\* simple_cycles has yielded a circuit and has removed a node from its
\* working graph, which G still has with its edges.
C19_Witness ==
    /\ pc = "sc_inner"
    /\ nyield >= 1
    /\ \E n \in Endpoints(G.edges) : n \notin subG.nodes

----------------------------------------------------------------------------
(* simple_cycles on the complete directed graphs *)

\* The largest complete directed graph given to simple_cycles.
MaxCompleteNodes == 4

\* nx.DiGraph(nx.complete_graph(n)): the nodes 0 .. n-1 and an edge in both
\* directions between every two of them.
CompleteDiGraph(n) ==
    [directed |-> TRUE, multi |-> FALSE, nodes |-> 0 .. n - 1,
     edges |-> {<<u, v, 0>> : u, v \in 0 .. n - 1} \ {<<u, u, 0>> : u \in 0 .. n - 1}]

\* ncircuits of test_complete_directed_graph, for n = 2 .. 8.
ncircuits == (2 :> 1) @@ (3 :> 5) @@ (4 :> 20) @@ (5 :> 84) @@ (6 :> 409)
             @@ (7 :> 2365) @@ (8 :> 16064)

\* Before the call simple_cycles(G) of "for n, c in zip(range(2, 9), ncircuits)".
InitComplete ==
    /\ pc = "sc_call"
    /\ G \in {CompleteDiGraph(n) : n \in 2 .. MaxCompleteNodes}
    /\ IdleCircuits
    /\ IdleReachable
    /\ IdleFindCycle
    /\ IdleChords
    /\ IdleCycleBasis

NextComplete ==
    \/ SCCall
    \/ SCBegin
    \/ SCPop
    \/ SCStep
    \/ SCResume
    \/ SCRemove
    \/ SCExhausted

SpecComplete == InitComplete /\ [][NextComplete]_vars

----------------------------------------------------------------------------
(* simple_cycles(G) alone, consumed to its end *)

\* Largest number of edges of the graphs whose whole iteration is followed.
MaxScEdges == 3

\* Before the call simple_cycles(G) on a directed graph, simple or multi,
\* with or without edges.
InitSimpleCycles ==
    /\ pc = "sc_call"
    /\ G \in {[directed |-> TRUE, multi |-> (\E e \in E : e[3] > 0), nodes |-> Nodes,
               edges |-> E] : E \in EdgeSets(Nodes \X Nodes \X Keys, MaxScEdges)}
    /\ IdleCircuits
    /\ IdleReachable
    /\ IdleFindCycle
    /\ IdleChords
    /\ IdleCycleBasis

NextSimpleCycles == NextComplete

SpecSimpleCycles == InitSimpleCycles /\ [][NextSimpleCycles]_vars

\* The consumer asks for elements until the sequence is exhausted.
SpecSimpleCyclesFair == SpecSimpleCycles /\ WF_vars(NextSimpleCycles)

\* The components that wait in the worklist.
Waiting == UNION {sccs[i] : i \in 1 .. Len(sccs)}

\* The step that ends the search from a start node takes the node out of
\* the working graph and leaves it in no component that waits.
StartNodeLeaves ==
    (pc = "sc_inner" /\ pc' = "sc_outer") =>
        (/\ startnode \notin subG'.nodes
         /\ \A c \in Waiting' : startnode \notin c /\ c \subseteq subG'.nodes)

\* Once made, the working graph gets no node.
NoNodeComesBack ==
    (pc \in {"sc_outer", "sc_inner", "sc_yield"}) => (subG'.nodes \subseteq subG.nodes)

\* C21: the iteration of simple_cycles(G) over a directed graph ends: every
\* search stack empties, the worklist of components empties and the sequence
\* is exhausted; the start node of a search that has ended is no longer in
\* the working graph nor in a component that waits, and no node comes back
\* into the working graph.
C21_Terminates ==
    /\ (pc = "sc_created") ~> (pc = "sc_done")
    /\ (pc = "sc_inner") ~> (pc = "sc_outer" /\ stack = <<>>)
    /\ [][StartNodeLeaves]_vars
    /\ [][NoNodeComesBack]_vars

\* The sequence is exhausted after two yields, one of them a circuit of two
\* nodes or more.
C21_Witness ==
    /\ pc = "sc_done"
    /\ nyield >= 2
    /\ \E y \in yielded : Len(y) >= 2

----------------------------------------------------------------------------
(* Two sequences simple_cycles(G) on one graph, consumed in any interleaving *)

TwoGraphs == {g \in FcGraphs : g.directed}

\* The generator object a call simple_cycles(G) returns: its locals are
\* unbound until the first element is requested.
FreshSequence(g) ==
    <<[nodes |-> {}, edges |-> {}], <<>>, {}, 0, <<>>, {}, {},
      [n \in Nodes \cup g.nodes |-> {}], <<>>, {}, 0>>

\* A second call simple_cycles(G) while the first sequence exists.
SecondCall ==
    /\ pc \in {"sc_created", "sc_outer", "sc_inner", "sc_yield", "sc_done"}
    /\ other = NoSequence
    /\ ~NotImplementedFor(simple_cycles_not_implemented_for, G)
    /\ other' = [pc |-> "sc_created", sc |-> FreshSequence(G)]
    /\ UNCHANGED <<pc, G, rcVars, scVars, fcVars, chVars, cbVars, irVars>>

\* The consumer leaves the running sequence where it is and turns to the
\* other one: each generator keeps its own frame.
Switch ==
    /\ pc \in {"sc_created", "sc_outer", "sc_inner", "sc_yield", "sc_done"}
    /\ other # NoSequence
    /\ other' = [pc |-> pc, sc |-> scVars]
    /\ pc' = other.pc
    /\ subG' = other.sc[1]
    /\ sccs' = other.sc[2]
    /\ scc' = other.sc[3]
    /\ startnode' = other.sc[4]
    /\ path' = other.sc[5]
    /\ blocked' = other.sc[6]
    /\ closed' = other.sc[7]
    /\ B' = other.sc[8]
    /\ stack' = other.sc[9]
    /\ yielded' = other.sc[10]
    /\ nyield' = other.sc[11]
    /\ UNCHANGED <<G, rcVars, fcVars, chVars, cbVars, irVars>>

InitTwoSequences ==
    /\ pc = "sc_call"
    /\ G \in TwoGraphs
    /\ IdleCircuits
    /\ IdleReachable
    /\ IdleFindCycle
    /\ IdleChords
    /\ IdleCycleBasis

NextTwoSequences ==
    \/ SCCall
    \/ SecondCall
    \/ Switch
    \/ SCBegin
    \/ SCPop
    \/ SCStep
    \/ SCResume
    \/ SCRemove
    \/ SCExhausted

SpecTwoSequences == InitTwoSequences /\ [][NextTwoSequences]_vars

\* The lists ys, n of them, are the elementary circuits of G, each once.
FullSetOfCircuits(ys, n) ==
    /\ n = Cardinality(ys)
    /\ \A c \in ElementaryCircuits(G.edges) :
         Cardinality({y \in ys : IsRotation(c, y)}) = 1
    /\ \A y \in ys : \E c \in ElementaryCircuits(G.edges) : IsRotation(c, y)

\* C22: two sequences created by two calls simple_cycles(G) on one graph are
\* independent: however their consumption is interleaved, and wherever the
\* other one is left, a sequence that is exhausted has yielded the full set
\* of circuits of G, the set a sequence consumed alone yields.
C22_SequencesIndependent ==
    /\ (pc = "sc_done" /\ other # NoSequence) => FullSetOfCircuits(yielded, nyield)
    /\ other.pc = "sc_done" => FullSetOfCircuits(other.sc[10], other.sc[11])

\* One sequence is exhausted after several circuits while the other one was
\* abandoned inside its search, after its first circuit.
C22_Witness ==
    /\ pc = "sc_done"
    /\ nyield >= 2
    /\ other.pc = "sc_inner"
    /\ other.sc[11] = 1
    /\ other.sc[5] # <<>>

----------------------------------------------------------------------------
(* is_reachable(G, s, t, path_length) *)

MaxIrEdges == 3
MaxPathLength == 4

\* G[u]: the successors of u in a directed graph, its neighbours in an
\* undirected one.
GAt(g, u) == IF g.directed THEN Succ(g.edges, u) ELSE Adj(g, u)

\* path_length // 2
LowerHalf(plen) == plen \div 2

\* math.floor(path_length / 2) in the place of math.ceil
UpperHalfFloored(plen) == plen \div 2

\* math.ceil(path_length / 2), under true division
UpperHalf(plen) == (plen + 1) \div 2

RECURSIVE is_reachable(_, _, _, _)
is_reachable(g, u, v, plen) ==
    IF plen = None THEN is_reachable(g, u, v, Cardinality(g.nodes) - 1)
    ELSE IF plen = 0 THEN u = v
    ELSE IF plen = 1 THEN u = v \/ v \in GAt(g, u)
    ELSE \E w \in g.nodes :
            /\ is_reachable(g, u, w, LowerHalf(plen))
            /\ is_reachable(g, w, v, UpperHalf(plen))

IrGraphs == GraphsOn(Nodes, MaxIrEdges)

\* Before the call is_reachable(G, s, t, path_length), path_length left out
\* or given.
InitReachable ==
    /\ pc = "ir_call"
    /\ G \in IrGraphs
    /\ ir_s \in G.nodes
    /\ ir_t \in G.nodes
    /\ path_length \in {None} \cup (0 .. MaxPathLength)
    /\ reachable = FALSE
    /\ IdleCircuits
    /\ IdleFindCycle
    /\ IdleChords
    /\ IdleCycleBasis

\* The call returns.
IRReturn ==
    /\ pc = "ir_call"
    /\ pc' = "ir_done"
    /\ reachable' = is_reachable(G, ir_s, ir_t, path_length)
    /\ UNCHANGED <<G, ir_s, ir_t, path_length, outsideReachable>>

NextReachable == IRReturn

SpecReachable == InitReachable /\ [][NextReachable]_vars

\* The nodes at the end of a path of at most k edges from u.
RECURSIVE Within(_, _, _)
Within(g, u, k) ==
    IF k = 0 THEN {u}
    ELSE LET W == Within(g, u, k - 1)
         IN  W \cup UNION {GAt(g, w) : w \in W}

\* The nodes at the end of a path from u, of any length.
RECURSIVE Closure(_, _)
Closure(g, W) ==
    LET more == W \cup UNION {GAt(g, w) : w \in W}
    IN  IF more = W THEN W ELSE Closure(g, more)

\* C23: is_reachable(G, s, t) is True exactly when G has a path from s to t
\* (s = t counts); with path_length = L >= 0 it is True exactly when a path
\* of at most L edges exists; and the recursion ends: a call with L >= 2
\* only calls with lengths that are smaller and not negative.
C23_Reachable ==
    /\ pc = "ir_done" =>
          reachable = IF path_length = None
                      THEN ir_t \in Closure(G, {ir_s})
                      ELSE ir_t \in Within(G, ir_s, path_length)
    /\ path_length >= 2 =>
          /\ LowerHalf(path_length) \in 0 .. path_length - 1
          /\ UpperHalf(path_length) \in 0 .. path_length - 1

\* A target three edges away is found with path_length left out and with
\* path_length 3.
C23_Witness ==
    /\ pc = "ir_done"
    /\ reachable
    /\ path_length \in {None, 3}
    /\ ir_t \notin Within(G, ir_s, 2)

----------------------------------------------------------------------------
(* More properties of the searches, each under the specification of its
   call *)

\* The nodes registered in the restart map: the keys with an entry and the
\* nodes in the entries.
Registered == {n \in DOMAIN B : B[n] # {}} \cup UNION {B[n] : n \in DOMAIN B}

\* C24: during the search simple_cycles runs from a start node, every node
\* on the path, in the blocked set or registered in B belongs to the
\* strongly connected component the start node was taken from.
C24_WalkConfinedToScc ==
    pc \in {"sc_inner", "sc_yield"} =>
        (Range(path) \cup blocked \cup Registered) \subseteq (scc \cup {startnode})

\* C25: in find_cycle every node of the explored set is free of cycles: no
\* cycle under the orientation can be reached from it; so the search of a
\* source goes on with its other edges after an edge into an explored node,
\* before its seen set is merged into explored.
C25_ExploredIsCycleFree ==
    ~HasCycleAt(G, orientation, ReachableFrom(G, orientation, explored))

----------------------------------------------------------------------------
(* cycle_basis(G, root) on the undirected simple graphs *)

MaxBasisEdges == 7

\* Before the call cycle_basis(G, root) on an undirected simple graph.
InitSimpleBasis ==
    /\ pc = "cb_call"
    /\ G \in {[directed |-> FALSE, multi |-> FALSE, nodes |-> CbNodes, edges |-> E]
             : E \in EdgeSets({e \in CbNodes \X CbNodes \X {0} : e[1] <= e[2]},
                              MaxBasisEdges)}
    /\ root \in CbNodes \cup {None}
    /\ simpleG = NullGraph
    /\ gnodes = {}
    /\ tstack = <<>>
    /\ pred = <<>>
    /\ used = <<>>
    /\ cycles = <<>>
    /\ z = None
    /\ zused = {}
    /\ znbrs = {}
    /\ IdleChords
    /\ IdleCircuits
    /\ IdleReachable
    /\ IdleFindCycle

NextSimpleBasis ==
    \/ CBBegin
    \/ CBNextComponent
    \/ CBPop
    \/ CBNbr
    \/ CBNbrsDone
    \/ CBComponentDone
    \/ CBReturn

SpecSimpleBasis == InitSimpleBasis /\ [][NextSimpleBasis]_vars

\* cyc is a simple cycle of the undirected simple graph g: one node with a
\* self-loop, or three or more distinct nodes, each joined to the next and
\* the last to the first.
IsSimpleCycle(g, cyc) ==
    /\ Len(cyc) \in {1} \cup (3 .. Cardinality(g.nodes))
    /\ \A i, j \in 1 .. Len(cyc) : i # j => cyc[i] # cyc[j]
    /\ \A i \in 1 .. Len(cyc) :
         Canonical(<<cyc[i], cyc[(i % Len(cyc)) + 1], 0>>) \in g.edges

\* C26: every cycle cycle_basis(G) returns for an undirected simple graph is
\* a simple cycle of G: its nodes are pairwise distinct, consecutive nodes
\* are joined by an edge of G and the last to the first; a cycle of one
\* node is a self-loop of G.
C26_BasisCyclesAreSimple ==
    \A i \in 1 .. Len(cycles) : IsSimpleCycle(G, cycles[i])

\* A basis with a cycle of four nodes and the cycle of a self-loop.
C26_Witness ==
    /\ pc = "cb_done"
    /\ \E i, j \in 1 .. Len(cycles) : Len(cycles[i]) = 4 /\ Len(cycles[j]) = 1

\* The edge whose discovery closed the cycle cyc = [nbr, z, ...]: nbr - z;
\* of [z], the self-loop at z.
ClosingEdge(cyc) ==
    IF Len(cyc) = 1 THEN <<cyc[1], cyc[1], 0>> ELSE Canonical(<<cyc[1], cyc[2], 0>>)

\* The XOR of the edge sets of the cycles with the indices I: the edges on
\* an odd number of them.
Xor(I) ==
    {e \in G.edges : Cardinality({i \in I : e \in CycleEdges(cycles[i])}) % 2 = 1}

\* C28: in the list cycle_basis(G) returns for an undirected simple graph,
\* every cycle contains an edge, the one that closed it, that lies on no
\* cycle earlier in the list (so the cycles are independent under the XOR
\* of edge sets), and no edge closes two cycles.
C28_EachCycleHasNewEdge ==
    /\ \A i \in 1 .. Len(cycles) :
        /\ ClosingEdge(cycles[i]) \in CycleEdges(cycles[i]) \cap G.edges
        /\ \A j \in 1 .. i - 1 :
             /\ ClosingEdge(cycles[i]) \notin CycleEdges(cycles[j])
             /\ ClosingEdge(cycles[i]) # ClosingEdge(cycles[j])
    /\ \A I \in SUBSET (1 .. Len(cycles)) : I # {} => Xor(I) # {}

\* A later cycle of the basis shares an edge with an earlier one.
C28_Witness ==
    /\ pc = "cb_done"
    /\ \E i, j \in 1 .. Len(cycles) :
         /\ j < i
         /\ CycleEdges(cycles[i]) \cap CycleEdges(cycles[j]) # {}

----------------------------------------------------------------------------
(* The state of the search of simple_cycles *)

\* C27: in simple_cycles, between the steps of the search from a start
\* node, the path starts with the start node, holds no node twice, is as
\* long as the work stack, ends with the node of the top stack frame, and
\* every node on it is blocked: no unblocking through B reaches a node that
\* is still on the path.
C27_PathStackBlocked ==
    pc \in {"sc_inner", "sc_yield"} =>
        /\ Len(path) = Len(stack)
        /\ \A i \in 1 .. Len(path) : path[i] = stack[i].node
        /\ stack # <<>> => path[1] = startnode
        /\ \A i, j \in 1 .. Len(path) : i # j => path[i] # path[j]
        /\ Range(path) \subseteq blocked

\* The search is three nodes deep after a circuit was yielded and a node
\* of it was unblocked again.
C27_Witness ==
    /\ pc = "sc_inner"
    /\ Len(path) >= 3
    /\ nyield >= 1
    /\ closed \ blocked # {}

----------------------------------------------------------------------------
(* The path of find_cycle *)

\* The heads of the edges es.
Heads(es) == {tailhead(es[i])[2] : i \in 1 .. Len(es)}

\* es is a walk from the node n: its first tail is n and each further tail
\* is the head of the edge before.
IsWalkFrom(n, es) ==
    /\ es # <<>> => tailhead(es[1])[1] = n
    /\ \A i \in 1 .. Len(es) - 1 : tailhead(es[i + 1])[1] = tailhead(es[i])[2]

\* What one run of the loop body leaves: no KeyError from
\* active_nodes.remove, the traversed edge on top of a walk from start_node,
\* and, the head of that edge set aside when the body added it, the active
\* set made of start_node and the heads of the edges below the top.
AfterReconcileAndPush ==
    pc = "fc_body" =>
        /\ pc' # "fc_keyerror"
        /\ edges' # <<>> /\ Last(edges') = edge
        /\ IsWalkFrom(start_node, edges')
        /\ (IF pc' = "fc_dfs" THEN active_nodes' \ {tailhead(edge)[2]} ELSE active_nodes')
             = {start_node} \cup Heads(Front(edges'))

\* C29: in find_cycle, after the reconcile-and-push step of every traversed
\* edge the stack of path edges is a contiguous walk from the current start
\* node; reconciling never removes a node that is not in the active set;
\* and when the head of the pushed edge is tested the active set is the
\* start node together with the heads of the earlier edges of the stack.
C29_PathIsWalk == [][AfterReconcileAndPush]_vars

\* A cycle is closed by an edge pushed after reconciling popped an edge
\* from the middle of the path.
C29_Witness ==
    /\ pc = "fc_after"
    /\ cycle # <<>>
    /\ Len(edges) >= 2
    /\ seen \ active_nodes # {}

----------------------------------------------------------------------------
(* The circuit enumerators on directed multigraphs *)

\* The edges of the simple directed graph that g becomes when the parallel
\* edges of each ordered pair of nodes are collapsed into one.
Collapsed(g) == {<<e[1], e[2], 0>> : e \in g.edges}

\* The n lists ys are the elementary circuits of the edges E, each node
\* sequence once and no circuit in two rotations.
CircuitsOnce(ys, n, E) ==
    /\ n = Cardinality(ys)
    /\ \A y \in ys : IsCircuit(E, y)
    /\ \A c \in ElementaryCircuits(E) : Cardinality({y \in ys : IsRotation(c, y)}) = 1

\* C30: on a directed multigraph parallel edges do not multiply circuits:
\* simple_cycles(G) and recursive_simple_cycles(G) each give exactly the
\* circuits of the simple directed graph with the parallel edges collapsed,
\* each node sequence once.
C30_ParallelEdgesCollapse ==
    (pc = "sc_done" /\ G.multi) =>
        /\ CircuitsOnce(yielded, nyield, Collapsed(G))
        /\ CircuitsOnce(result, nresult, Collapsed(G))

\* Both enumerators ran on a graph with parallel edges from one node of a
\* circuit to the next, and each gave that circuit once and nothing else.
C30_Witness ==
    /\ pc = "sc_done"
    /\ \E y \in yielded \cap result :
         /\ Len(y) >= 2
         /\ <<y[1], y[2], 1>> \in G.edges
    /\ nyield = 1
    /\ nresult = 1

====
